---------------------------- MODULE Spec2Model ----------------------------
(***************************************************************************)
(* A model of add_anki_card.py: the interactive Anki card creator.         *)
(*                                                                         *)
(* Four specifications share this module:                                  *)
(*   SpecParse   run_trans_dump and parse_trans_data on bounded outputs    *)
(*               of the translation tool and bounded decoded payloads;     *)
(*   SpecQuery   the findNotes query string built by card_exists;          *)
(*   SpecInvoke  invoke on bounded responses of the flashcard service;     *)
(*   Spec        main: the startup check, the prompts and the word loop.   *)
(*                                                                         *)
(* Python strings are sequences of one-character strings, so that          *)
(* formatting, joining and escaping are computed, not assumed.             *)
(***************************************************************************)
EXTENDS Integers, Sequences, FiniteSets, TLC

VARIABLES
    \* --- run_trans_dump / parse_trans_data
    ppc,        \* "idle" | "start" | "dumped" | "done"
    launch,     \* whether the trans process could be started: "ok" | "missing"
    output,     \* stdout of the trans process, a sequence of tokens
    data,       \* the decoded payload handed to parse_trans_data
    qword,      \* the query word handed to parse_trans_data
    result,     \* what parse_trans_data returned, and whether it raised
    \* --- invoke
    ipc,        \* "idle" | "start" | "done"
    response,   \* what requests.post(...).json() gives
    returned,   \* what invoke returned, and what it printed
    \* --- card_exists
    cpc,        \* "idle" | "start" | "done"
    cdeck,      \* the deck name
    cword,      \* the word
    query,      \* the query string sent with findNotes
    exists,     \* what card_exists returned
    \* --- main
    pc,         \* where main is: "idle", "start", a prompt, a step, or "exited"
    exitStatus, \* the process's exit status once pc = "exited", else -1
    errOut,     \* what was reported at exit: "none" | "message" | "traceback"
    interrupted,\* whether a KeyboardInterrupt was raised
    conn,       \* what the startup GET gave: "refused", an HTTP status, or
                \* "interrupted" when it never returned
    prompted,   \* whether any input() prompt has been issued
    sent,       \* the service actions sent so far
    lang_code, decks, deck_name, word,
    files,      \* the audio files of TMP_DIR: name -> "absent" | "empty" | "full"
    card_data,  \* data of main: what parse_trans_data returned for this word
    audio,      \* audio_path/audio_fn of this iteration, <<>> for None
    translation, ipa, pos_in, ex_str, notes, pic_input,  \* the prompts' values
    note,       \* the fields of the note, once built
    img_idx,    \* the index of the next image source to process
    img_html_list,
    imgLog,     \* per image source of this iteration: how it was resolved
    dupAnswer,  \* the answer to "Add anyway?" of this iteration ("-": not asked)
    addAnswer,  \* the answer to "Add card?" of this iteration ("-": not asked)
    addNotes,   \* how many addNote actions this iteration sent
    added       \* whether addNote returned an identifier

parseVars == <<ppc, launch, output, data, qword, result>>
invokeVars == <<ipc, response, returned>>
queryVars == <<cpc, cdeck, cword, query, exists>>
iterVars ==
    <<card_data, audio, translation, ipa, pos_in, ex_str, notes, pic_input, note,
      img_idx, img_html_list, imgLog, dupAnswer, addAnswer, addNotes, added>>
mainVars ==
    <<pc, exitStatus, errOut, interrupted, conn, prompted, sent, lang_code, decks,
      deck_name, word, files, iterVars>>

----------------------------------------------------------------------------
(* Bounds of the model.                                                    *)

\* Longest tool output, in tokens.
MaxOut == 4
\* Longest synonym list of a payload.
MaxSyn == 6
\* Most synonym-style top-level entries of a decoded payload.
MaxItems == 2
\* Most entries of one part-of-speech block of a decoded payload.
MaxEntries == 2
\* Longest word handed to card_exists, in characters.
MaxWordLen == 3
\* Most comma-separated image sources of one picture input.
MaxPics == 2

----------------------------------------------------------------------------
(* Python values: None, numbers, strings and lists, as tagged records.     *)

PyNone == [t |-> "none", n |-> 0, s |-> <<>>, v |-> <<>>]
PyNum(k) == [t |-> "num", n |-> k, s |-> <<>>, v |-> <<>>]
PyStr(chars) == [t |-> "str", n |-> 0, s |-> chars, v |-> <<>>]
PyList(elems) == [t |-> "list", n |-> 0, s |-> <<>>, v |-> elems]

IsList(x) == x.t = "list"
IsStr(x) == x.t = "str"

\* bool(x): None, 0, "" and [] are false.
Truthy(x) ==
    CASE x.t = "none" -> FALSE
      [] x.t = "num" -> x.n # 0
      [] x.t = "str" -> x.s # <<>>
      [] OTHER -> x.v # <<>>

\* len(x); defined for strings and lists only (a number or None raises TypeError).
HasLen(x) == x.t \in {"str", "list"}
PyLen(x) == IF x.t = "str" THEN Len(x.s) ELSE Len(x.v)

\* x[i] with a 0-based index, of a list or a string.
PyAt(x, i) == IF x.t = "str" THEN PyStr(<<x.s[i + 1]>>) ELSE x.v[i + 1]

\* seq[:k]
Take(seq, k) == SubSeq(seq, 1, IF Len(seq) < k THEN Len(seq) ELSE k)

RECURSIVE Flatten(_)
Flatten(seqs) ==
    IF seqs = <<>> THEN <<>> ELSE Head(seqs) \o Flatten(Tail(seqs))

\* sep.join(strs), for a sequence of character sequences.
RECURSIVE Join(_, _)
Join(strs, sep) ==
    IF strs = <<>> THEN <<>>
    ELSE IF Len(strs) = 1 THEN strs[1]
    ELSE strs[1] \o sep \o Join(Tail(strs), sep)

Digits == <<"0", "1", "2", "3", "4", "5", "6", "7", "8", "9">>

\* repr(x) and str(x); strings of the model hold no quote or backslash, so the
\* repr of a string is the string between single quotes.
RECURSIVE PyRepr(_)
PyRepr(x) ==
    CASE x.t = "none" -> <<"N", "o", "n", "e">>
      [] x.t = "num" -> <<Digits[x.n + 1]>>
      [] x.t = "str" -> <<"'">> \o x.s \o <<"'">>
      [] OTHER ->
           <<"[">> \o Join([i \in 1..Len(x.v) |-> PyRepr(x.v[i])], <<",", " ">>)
                   \o <<"]">>

PyFormat(x) == IF x.t = "str" THEN x.s ELSE PyRepr(x)

----------------------------------------------------------------------------
(* json.loads on the tool's output.  A token stands for a lexeme of the    *)
(* output: "[", "]", ",", "s" (the string literal "a"), "null", " "        *)
(* (whitespace) and "x" (anything that is no JSON lexeme).                 *)

Tokens == {"[", "]", ",", "s", "null", " ", "x"}

NoParse == [ok |-> FALSE, val |-> PyNone, next |-> 0]

RECURSIVE SkipWs(_, _)
SkipWs(toks, i) ==
    IF i <= Len(toks) /\ toks[i] = " " THEN SkipWs(toks, i + 1) ELSE i

RECURSIVE ParseValue(_, _)
RECURSIVE ParseElems(_, _, _, _)

\* One JSON value starting at token i (whitespace already skipped).
ParseValue(toks, i) ==
    IF i > Len(toks) THEN NoParse
    ELSE CASE toks[i] = "s" -> [ok |-> TRUE, val |-> PyStr(<<"a">>), next |-> i + 1]
           [] toks[i] = "null" -> [ok |-> TRUE, val |-> PyNone, next |-> i + 1]
           [] toks[i] = "[" -> ParseElems(toks, SkipWs(toks, i + 1), <<>>, TRUE)
           [] OTHER -> NoParse

\* The elements of an array whose "[" has been read; first: no element yet.
ParseElems(toks, i, acc, first) ==
    IF i > Len(toks) THEN NoParse
    ELSE IF first /\ toks[i] = "]"
    THEN [ok |-> TRUE, val |-> PyList(acc), next |-> i + 1]
    ELSE LET r == ParseValue(toks, i)
             j == SkipWs(toks, r.next)
         IN  IF ~r.ok \/ j > Len(toks) THEN NoParse
             ELSE IF toks[j] = "]"
             THEN [ok |-> TRUE, val |-> PyList(Append(acc, r.val)), next |-> j + 1]
             ELSE IF toks[j] = ","
             THEN ParseElems(toks, SkipWs(toks, j + 1), Append(acc, r.val), FALSE)
             ELSE NoParse

\* json.loads(text): one value, then nothing but whitespace; ok = FALSE stands
\* for JSONDecodeError.
json_loads(toks) ==
    LET r == ParseValue(toks, SkipWs(toks, 1))
    IN  IF r.ok /\ SkipWs(toks, r.next) > Len(toks) THEN r ELSE NoParse

\* str.find / str.rfind of one token: the 0-based index, or -1.
Find(toks, c) ==
    IF \E i \in 1..Len(toks) : toks[i] = c
    THEN (CHOOSE i \in 1..Len(toks) :
             toks[i] = c /\ \A j \in 1..(i - 1) : toks[j] # c) - 1
    ELSE -1

RFind(toks, c) ==
    IF \E i \in 1..Len(toks) : toks[i] = c
    THEN (CHOOSE i \in 1..Len(toks) :
             toks[i] = c /\ \A j \in (i + 1)..Len(toks) : toks[j] # c) - 1
    ELSE -1

\* str.strip(): leading and trailing whitespace removed.
RECURSIVE LStrip(_)
LStrip(toks) ==
    IF toks # <<>> /\ Head(toks) = " " THEN LStrip(Tail(toks)) ELSE toks

RECURSIVE RStrip(_)
RStrip(toks) ==
    IF toks # <<>> /\ toks[Len(toks)] = " "
    THEN RStrip(SubSeq(toks, 1, Len(toks) - 1)) ELSE toks

Strip(toks) == RStrip(LStrip(toks))

\* run_trans_dump: the decoded array between the first "[" and the last "]" of
\* the tool's output; None when the tool cannot be started, when either bracket
\* is missing or when the text between them is not JSON.
run_trans_dump(how, stdout) ==
    IF how = "missing" THEN PyNone
    ELSE LET out == Strip(stdout)
             start == Find(out, "[")
             end == RFind(out, "]")
         IN  IF start # -1 /\ end # -1
             THEN LET r == json_loads(SubSeq(out, start + 1, end + 1))
                  IN  IF r.ok THEN r.val ELSE PyNone
             ELSE PyNone


----------------------------------------------------------------------------
(* parse_trans_data                                                        *)

\* The literal pieces of the strings parse_trans_data builds.
SynPrefix == <<" ", "|", " ", "S", "y", "n", "o", "n", "y", "m", "s", ":", " ">>
CommaSp == <<",", " ">>
Br == <<"<", "b", "r", ">">>

\* A handler that would catch the lookup errors only.
NarrowExcept == {"IndexError", "KeyError"}

\* The exception classes an "except Exception" clause catches, among those the
\* model raises; KeyboardInterrupt is a BaseException and passes through.
ExceptionClasses ==
    {"TypeError", "IndexError", "KeyError", "AttributeError", "EOFError",
     "FileNotFoundError"}

\* for item in x: the elements of a list, the characters of a string.
Elements(x) ==
    IF x.t = "str" THEN [i \in 1..Len(x.s) |-> PyStr(<<x.s[i]>>)] ELSE x.v

\* sep.join(vals): TypeError (ok = FALSE) unless every value is a string.
StrJoin(vals, sep) ==
    [ok |-> \A i \in 1..Len(vals) : IsStr(vals[i]),
     s |-> Join([i \in 1..Len(vals) |-> vals[i].s], sep)]

\* Step 1: the phonetic string at data[0][1][3], between slashes.
IpaOf(d) ==
    IF PyLen(d) > 0 /\ IsList(PyAt(d, 0))
       /\ PyLen(PyAt(d, 0)) > 1 /\ IsList(PyAt(PyAt(d, 0), 1))
       /\ PyLen(PyAt(PyAt(d, 0), 1)) > 3
    THEN <<"/">> \o PyFormat(PyAt(PyAt(PyAt(d, 0), 1), 3)) \o <<"/">>
    ELSE <<>>

\* The synonyms of one part-of-speech block: the first three of every entry
\* whose first element is a list.
SynonymsOf(entries) ==
    Flatten([i \in 1..Len(entries) |->
        IF IsList(entries[i]) /\ Len(entries[i].v) > 0 /\ IsList(entries[i].v[1])
        THEN Take(entries[i].v[1].v, 3)
        ELSE <<>>])

\* The second loop over a block's entries: an entry whose first element is a
\* string is a definition, and its third element, when a string, an example.
RECURSIVE DefinitionEntries(_, _, _, _)
DefinitionEntries(entries, pos, suffix, acc) ==
    IF entries = <<>> THEN acc
    ELSE LET entry == Head(entries)
             next ==
                 IF IsList(entry) /\ Len(entry.v) > 0 /\ IsStr(entry.v[1])
                 THEN [acc EXCEPT
                         !.all_pos = @ \cup {pos},
                         !.definitions =
                             Append(@, <<"(">> \o pos \o <<")", " ">>
                                          \o entry.v[1].s \o suffix),
                         !.examples =
                             IF Len(entry.v) > 2 /\ IsStr(entry.v[3])
                             THEN Append(@, entry.v[3].s) ELSE @]
                 ELSE acc
         IN  DefinitionEntries(Tail(entries), pos, suffix, next)

\* One pos_block of an explanation-style item.
PosBlock(pos_block, acc) ==
    IF acc.exc # "" THEN acc
    ELSE IF IsList(pos_block) /\ Len(pos_block.v) > 1 /\ IsStr(pos_block.v[1])
    THEN LET pos == pos_block.v[1].s
             entries == pos_block.v[2]
         IN  IF ~IsList(entries) THEN acc
             ELSE LET synonyms == SynonymsOf(entries.v)
                      joined == StrJoin(Take(synonyms, 3), CommaSp)
                  IN  IF synonyms # <<>> /\ ~joined.ok
                      THEN [acc EXCEPT !.exc = "TypeError"]
                      ELSE DefinitionEntries(entries.v, pos,
                              IF synonyms # <<>> THEN SynPrefix \o joined.s
                              ELSE <<>>,
                              acc)
    ELSE acc

RECURSIVE PosBlocks(_, _)
PosBlocks(blocks, acc) ==
    IF blocks = <<>> THEN acc
    ELSE PosBlocks(Tail(blocks), PosBlock(Head(blocks), acc))

\* Priority 1: the explanation-style pass over the top-level items.
RECURSIVE ExplanationPass(_, _)
ExplanationPass(items, acc) ==
    IF items = <<>> \/ acc.exc # "" THEN acc
    ELSE LET item == Head(items)
             next ==
                 IF IsList(item) /\ Len(item.v) > 0 /\ IsList(item.v[1])
                    /\ Len(item.v[1].v) > 0
                 THEN PosBlocks(item.v, acc)
                 ELSE acc
         IN  ExplanationPass(Tail(items), next)

\* Priority 2: the synonym-style pass, one definition per top-level item whose
\* first element is a string and whose second is a list.
RECURSIVE SynonymPass(_, _)
SynonymPass(items, acc) ==
    IF items = <<>> \/ acc.exc # "" THEN acc
    ELSE LET item == Head(items)
             next ==
                 IF IsList(item) /\ Len(item.v) > 1 /\ IsStr(item.v[1])
                 THEN LET pos == item.v[1].s
                          synonyms == item.v[2]
                          joined == StrJoin(Take(synonyms.v, 5), CommaSp)
                          seen == [acc EXCEPT !.all_pos = @ \cup {pos}]
                      IN  IF ~IsList(synonyms) THEN seen
                          ELSE IF ~joined.ok THEN [seen EXCEPT !.exc = "TypeError"]
                          ELSE [seen EXCEPT !.definitions =
                                   Append(@, <<"(">> \o pos \o <<")", " ">>
                                                \o joined.s)]
                 ELSE acc
         IN  SynonymPass(Tail(items), next)

\* A fallback that would run whatever the first pass collected.
RunsFallbackAlways(acc) == TRUE

\* The fallback runs only when the first pass collected no definition.
RunsFallback(acc) == acc.definitions = <<>>

\* What the try block starts from: result's lists, all_pos, no exception.
EmptyAcc ==
    [definitions |-> <<>>, examples |-> <<>>, all_pos |-> {}, ipa |-> <<>>,
     exc |-> ""]

\* The body of the try block up to the joins: what was collected, and the
\* exception that ended it (exc = "" when none did).
Traverse(d) ==
    IF ~HasLen(d) THEN [EmptyAcc EXCEPT !.exc = "TypeError"]
    ELSE LET first ==
                 ExplanationPass(Elements(d), [EmptyAcc EXCEPT !.ipa = IpaOf(d)])
         IN  IF first.exc = "" /\ RunsFallback(first)
             THEN SynonymPass(Elements(d), first)
             ELSE first

\* The orders in which a Python set of strings may be iterated.
Orderings(S) ==
    {f \in [1..Cardinality(S) -> S] :
        \A i, j \in 1..Cardinality(S) : i # j => f[i] # f[j]}

DefaultResult(w) ==
    [word |-> w, translation |-> <<>>, ipa |-> <<>>, pos |-> <<>>,
     definitions |-> <<>>, examples |-> <<>>]

\* parse_trans_data(data, word); ord is the iteration order of the set all_pos.
\* escaped: an exception left the function; printed: "Error parsing JSON" was
\* printed by the except clause.
parse_trans_data(d, w, ord) ==
    IF ~Truthy(d)
    THEN [res |-> DefaultResult(w), printed |-> FALSE, escaped |-> FALSE]
    ELSE LET t == Traverse(d)
             partial == [DefaultResult(w) EXCEPT
                            !.ipa = t.ipa,
                            !.definitions = t.definitions,
                            !.examples = t.examples]
         IN  IF t.exc # ""
             THEN [res |-> partial,
                   printed |-> t.exc \in ExceptionClasses,
                   escaped |-> t.exc \notin ExceptionClasses]
             ELSE [res |-> [partial EXCEPT
                              !.pos = Join(ord, CommaSp),
                              !.translation = Join(t.definitions, Br)],
                   printed |-> FALSE, escaped |-> FALSE]


----------------------------------------------------------------------------
(* The bounded inputs of SpecParse.                                        *)

Letters == <<"a", "b", "c", "d", "e", "f", "g", "h">>
Syn(i) == PyStr(<<Letters[((i - 1) % 8) + 1]>>)
SynList(k) == PyList([i \in 1..k |-> Syn(i)])

Noun == <<"n", "o", "u", "n">>
Verb == <<"v", "e", "r", "b">>
Num5 == PyNum(5)

\* Sequences over S of length at most k.
SeqsUpTo(S, k) == UNION {[1..n -> S] : n \in 0..k}

\* Synonym lists: every length up to MaxSyn, and lists holding a non-string.
SynLists ==
    {SynList(k) : k \in 0..MaxSyn}
        \cup {PyList(<<Syn(1), Num5>>), PyList(<<PyNone>>)}

\* Synonym-style top-level entries: [pos, synonyms].
FallbackItems ==
    {PyList(<<PyStr(Noun), sl>>) : sl \in SynLists \cup {Num5}}
        \cup {PyList(<<PyStr(Verb), SynList(2)>>), PyList(<<PyStr(Verb), Num5>>)}

LaterFallbackItems ==
    {PyList(<<PyStr(Verb), SynList(1)>>), PyList(<<PyStr(Noun), SynList(2)>>),
     PyList(<<PyStr(Verb), PyList(<<Num5>>)>>)}

FallbackBodies ==
    {<<f>> \o r : f \in FallbackItems, r \in SeqsUpTo(LaterFallbackItems, MaxItems - 1)}

\* Entries of a part-of-speech block: definitions (with and without an example
\* sentence), synonym groups (well-formed and not) and a number.
BlockEntries ==
    {PyList(<<PyStr(<<"x">>)>>),
     PyList(<<PyStr(<<"y">>), PyNone, PyStr(<<"e">>)>>),
     PyList(<<SynList(2)>>),
     PyList(<<SynList(4)>>),
     PyList(<<PyList(<<Num5>>)>>),
     Num5}

FirstBlocks ==
    {PyList(<<PyStr(Noun), PyList(es)>>) : es \in SeqsUpTo(BlockEntries, MaxEntries)}

SecondBlocks ==
    {PyList(<<PyStr(Verb), PyList(<<PyList(<<PyStr(<<"z">>)>>)>>)>>),
     PyList(<<PyStr(Noun), PyList(<<PyList(<<PyStr(<<"z">>)>>)>>)>>),
     PyList(<<PyStr(Verb),
              PyList(<<PyList(<<PyList(<<Num5>>)>>), PyList(<<PyStr(<<"z">>)>>)>>)>>),
     PyList(<<PyStr(Verb), Num5>>)}

\* Explanation-style top-level entries: a list of one or two pos blocks.
ExplainItems ==
    {PyList(<<b>>) : b \in FirstBlocks}
        \cup {PyList(<<b, c>>) : b \in FirstBlocks, c \in SecondBlocks}

\* The main block carrying the phonetic string at [1][3], as the tool prints it
\* and in degenerate forms.
IpaItems ==
    {PyList(<<PyList(<<PyStr(<<"w">>), PyStr(<<"w">>)>>),
              PyList(<<PyNone, PyNone, PyNone, PyStr(<<"i">>)>>)>>),
     PyList(<<PyNone, PyList(<<PyNone, PyNone, PyNone, PyNone>>)>>),
     PyList(<<PyNone, PyList(<<PyNone, PyNone, PyNone>>)>>)}

SomeExplainItems ==
    {PyList(<<PyList(<<PyStr(Noun), PyList(<<PyList(<<PyStr(<<"x">>)>>)>>)>>)>>),
     PyList(<<PyList(<<PyStr(Noun), PyList(<<>>)>>)>>),
     PyList(<<PyList(<<PyStr(Noun),
                       PyList(<<PyList(<<PyStr(<<"x">>)>>),
                                PyList(<<PyList(<<Num5>>)>>)>>)>>)>>)}

MixedBodies ==
    {<<e, f>> : e \in SomeExplainItems, f \in LaterFallbackItems}
        \cup {<<f, e>> : e \in SomeExplainItems, f \in LaterFallbackItems}
        \cup {<<e, Num5>> : e \in SomeExplainItems}

Bodies == {<<e>> : e \in ExplainItems} \cup FallbackBodies \cup MixedBodies

\* Decoded payloads: arrays with or without a main block, and the values that
\* are no array.
Payloads ==
    {PyList(b) : b \in Bodies}
        \cup {PyList(<<i>> \o b) : i \in IpaItems, b \in Bodies}
        \cup {PyList(<<i>>) : i \in IpaItems}
        \cup {PyNone, PyNum(0), Num5, PyStr(<<>>), PyStr(<<"a", "b">>), PyList(<<>>)}

Outputs == SeqsUpTo(Tokens, MaxOut)

QueryWords == {<<"w">>}

NoResult == [res |-> DefaultResult(<<>>), printed |-> FALSE, escaped |-> FALSE]

----------------------------------------------------------------------------
(* SpecParse                                                               *)

IdleParse ==
    /\ ppc = "idle"
    /\ launch = "ok"
    /\ output = <<>>
    /\ data = PyNone
    /\ qword = <<>>
    /\ result = NoResult

InitParse ==
    /\ qword \in QueryWords
    /\ result = NoResult
    /\ \/ /\ ppc = "start"
          /\ launch \in {"ok", "missing"}
          /\ output \in Outputs
          /\ launch = "missing" => output = <<>>
          /\ data = PyNone
       \/ /\ ppc = "dumped"
          /\ launch = "ok"
          /\ output = <<>>
          /\ data \in Payloads

\* run_trans_dump(word, lang)
RunTransDump ==
    /\ ppc = "start"
    /\ data' = run_trans_dump(launch, output)
    /\ ppc' = "dumped"
    /\ UNCHANGED <<launch, output, qword, result>>

\* parse_trans_data(data, word)
ParseTransData ==
    /\ ppc = "dumped"
    /\ \E ord \in Orderings(IF Truthy(data) THEN Traverse(data).all_pos ELSE {}) :
           result' = parse_trans_data(data, qword, ord)
    /\ ppc' = "done"
    /\ UNCHANGED <<launch, output, data, qword>>



----------------------------------------------------------------------------
(* invoke                                                                  *)

\* A response of requests.post(...).json():
\*   kind "raise"  the connection failed or the body is not JSON;
\*   kind "dict"   a JSON object, d maps its keys to their values;
\*   kind "list"   a JSON array v;
\*   kind "scalar" a JSON number or null.
RaiseResponse == [kind |-> "raise", d |-> <<>>, v |-> <<>>]
DictResponse(f) == [kind |-> "dict", d |-> f, v |-> <<>>]
ListResponse(items) == [kind |-> "list", d |-> <<>>, v |-> items]
ScalarResponse == [kind |-> "scalar", d |-> <<>>, v |-> <<>>]

\* Whether len(response) is defined, and its value.
ResponseLen(r) ==
    CASE r.kind = "dict" -> Cardinality(DOMAIN r.d)
      [] r.kind = "list" -> Len(r.v)
      [] OTHER -> -1

\* response[key]: defined for a JSON object that has the key.
HasKey(r, key) == r.kind = "dict" /\ key \in DOMAIN r.d

\* invoke(action, **params) given the service's response: ret is the value
\* returned, ankiError whether "AnkiConnect Error" was printed, connError whether
\* "Connection Error" was printed (an exception was caught).
invoke(r) ==
    IF r.kind = "raise" \/ ResponseLen(r) = -1
    THEN [ret |-> PyNone, ankiError |-> FALSE, connError |-> TRUE]
    ELSE IF ResponseLen(r) # 2
    THEN [ret |-> PyNone, ankiError |-> FALSE, connError |-> FALSE]
    ELSE IF ~HasKey(r, "error")
    THEN [ret |-> PyNone, ankiError |-> FALSE, connError |-> TRUE]
    ELSE IF ~HasKey(r, "result")
    THEN [ret |-> PyNone, ankiError |-> Truthy(r.d["error"]), connError |-> TRUE]
    ELSE [ret |-> r.d["result"],
          ankiError |-> Truthy(r.d["error"]), connError |-> FALSE]

\* The values a response's keys hold in the model.
ResponseValues ==
    {PyNone, PyStr(<<>>), PyStr(<<"e">>), PyNum(0), Num5, PyList(<<PyNum(1)>>)}

Responses ==
    {RaiseResponse, ScalarResponse, ListResponse(<<>>),
     ListResponse(<<PyNone, PyNone>>)}
        \cup {DictResponse(f) : f \in [{"result", "error"} -> ResponseValues]}
        \cup {DictResponse(f) : f \in [{"result"} -> ResponseValues]}
        \cup {DictResponse(f) : f \in [{"error", "extra"} -> {PyNone, PyStr(<<"e">>)}]}
        \cup {DictResponse(f) : f \in [{"result", "extra"} -> {PyNone, Num5}]}
        \cup {DictResponse(f) :
                 f \in [{"result", "error", "extra"} -> {PyNone, PyStr(<<"e">>)}]}

NoReturn == [ret |-> PyNone, ankiError |-> FALSE, connError |-> FALSE]

IdleInvoke ==
    /\ ipc = "idle"
    /\ response = RaiseResponse
    /\ returned = NoReturn

InitInvoke ==
    /\ ipc = "start"
    /\ response \in Responses
    /\ returned = NoReturn

Invoke ==
    /\ ipc = "start"
    /\ returned' = invoke(response)
    /\ ipc' = "done"
    /\ UNCHANGED response

----------------------------------------------------------------------------
(* card_exists                                                             *)

Quote == "\""
Backslash == "\\"

\* str.replace('"', '\\"'): a backslash before every double quote.
RECURSIVE EscapeQuotes(_)
EscapeQuotes(w) ==
    IF w = <<>> THEN <<>>
    ELSE (IF Head(w) = Quote THEN <<Backslash, Quote>> ELSE <<Head(w)>>)
             \o EscapeQuotes(Tail(w))

DeckPrefix == <<"d", "e", "c", "k", ":", Quote>>
WordPrefix == <<Quote, " ", Quote, "W", "o", "r", "d", ":">>

\* The query of card_exists: deck:"<deck>" "Word:<safe_word>"
FindNotesQuery(deck, w) ==
    DeckPrefix \o deck \o WordPrefix \o EscapeQuotes(w) \o <<Quote>>

\* card_exists(deck, word) given the service's response to findNotes.
card_exists(r) == Truthy(invoke(r).ret)

WordChars == {"a", " ", Quote, Backslash}
Words == SeqsUpTo(WordChars, MaxWordLen)
DefaultDeck == <<"D", "e", "f", "a", "u", "l", "t">>

\* The responses of findNotes in SpecQuery: no note, one note, an error.
FindNotesResponses ==
    {DictResponse([result |-> PyList(<<>>), error |-> PyNone]),
     DictResponse([result |-> PyList(<<PyNum(1)>>), error |-> PyNone]),
     DictResponse([result |-> PyNone, error |-> PyStr(<<"e">>)]),
     RaiseResponse}

IdleQuery ==
    /\ cpc = "idle"
    /\ cdeck = <<>>
    /\ cword = <<>>
    /\ query = <<>>
    /\ exists = FALSE

InitQuery ==
    /\ cpc = "start"
    /\ cdeck = DefaultDeck
    /\ cword \in Words
    /\ query = <<>>
    /\ exists = FALSE

CardExists ==
    /\ cpc = "start"
    /\ query' = FindNotesQuery(cdeck, cword)
    /\ \E r \in FindNotesResponses : exists' = card_exists(r)
    /\ cpc' = "done"
    /\ UNCHANGED <<cdeck, cword>>


----------------------------------------------------------------------------
(* Helpers of main.                                                        *)

\* str.lower() on the characters the prompts' answers use.
LowerChar(c) ==
    CASE c = "Y" -> "y" [] c = "N" -> "n" [] c = "Q" -> "q" [] OTHER -> c
Lower(str) == [i \in 1..Len(str) |-> LowerChar(str[i])]

\* str.isdigit() and int(str).
IsDigit(c) == \E d \in 1..10 : Digits[d] = c
IsDigitStr(str) == str # <<>> /\ \A i \in 1..Len(str) : IsDigit(str[i])
DigitVal(c) == (CHOOSE d \in 1..10 : Digits[d] = c) - 1
RECURSIVE ToInt(_)
ToInt(str) ==
    IF str = <<>> THEN 0
    ELSE 10 * ToInt(SubSeq(str, 1, Len(str) - 1)) + DigitVal(str[Len(str)])

\* Code-point order of the characters deck names use, and of strings.
CharOrder == <<"A", "B", "D", "a", "e", "f", "l", "t", "u">>
Ord(c) == CHOOSE i \in 1..Len(CharOrder) : CharOrder[i] = c
RECURSIVE StrLess(_, _)
StrLess(a, b) ==
    IF b = <<>> THEN FALSE
    ELSE IF a = <<>> THEN TRUE
    ELSE IF Head(a) = Head(b) THEN StrLess(Tail(a), Tail(b))
    ELSE Ord(Head(a)) < Ord(Head(b))

\* list.sort(reverse=True) of a list of strings.
RECURSIVE InsertDesc(_, _)
InsertDesc(x, sorted) ==
    IF sorted = <<>> THEN <<x>>
    ELSE IF StrLess(Head(sorted), x) THEN <<x>> \o sorted
    ELSE <<Head(sorted)>> \o InsertDesc(x, Tail(sorted))

RECURSIVE SortReverse(_)
SortReverse(seq) ==
    IF seq = <<>> THEN <<>>
    ELSE InsertDesc(seq[Len(seq)], SortReverse(SubSeq(seq, 1, Len(seq) - 1)))

\* check_anki_connection: the GET answered with status 200.
check_anki_connection(c) == c = "200"

\* re.sub(r'[^a-zA-Z0-9]', '_', word) on the characters the words use.
AlnumChars == {"a", "b"}
Sanitize(w) == [i \in 1..Len(w) |-> IF w[i] \in AlnumChars THEN w[i] ELSE "_"]

\* The file name download_audio derives from the word.
AudioPrefix == <<"a", "n", "k", "i", "_", "a", "u", "d", "i", "o", "_">>
Mp3 == <<".", "m", "p", "3">>
AudioFileName(w) == AudioPrefix \o Sanitize(w) \o Mp3

\* download_audio: what the trans process left under the file's path, and the
\* path returned: the file's name when it exists with a size above 0.
FileAfterTrans(before, wrote) ==
    CASE wrote = "full" -> "full"
      [] wrote = "empty" -> "empty"
      [] OTHER -> before
download_audio(fileState, w) == IF fileState = "full" THEN AudioFileName(w) ELSE <<>>

\* "<br>".join of the first four examples, each after a bullet (U+2022, written
\* "*" here) and a space.
Bullet == <<"*", " ">>
ExamplesString(examples) ==
    Join([i \in 1..Len(Take(examples, 4)) |-> Bullet \o examples[i]], Br)

\* input(...).strip() or default
OrDefault(typed, default) == IF Strip(typed) # <<>> THEN Strip(typed) ELSE default

\* A duplicate prompt that would go on unless the answer is n.
UnlessNo(answer) == Strip(Lower(answer)) # <<"n">>

\* The answers that go on at "Add anyway?" (y/N) and at "Add card?" (Y/n).
AddAnyway(answer) == Lower(Strip(answer)) = <<"y">>
AddCard(answer) == Strip(Lower(answer)) # <<"n">>

\* The word prompt ends the loop on a blank line and on q.
QuitsLoop(w) == w = <<>> \/ Lower(w) = <<"q">>

\* The note main builds; the clock value of "Note ID" is the symbolic "t".
SoundField(fn) == <<"[", "s", "o", "u", "n", "d", ":">> \o fn \o <<"]">>
BuildNote(deck, w, tr, ip, ps, ex, nt) ==
    [deckName |-> deck, Word |-> w, NoteID |-> <<"t">>, Translation |-> tr,
     IPA |-> ip, PoS |-> ps, Examples |-> ex, Notes |-> nt,
     Sound |-> <<>>, hasSound |-> FALSE, Picture |-> <<>>, hasPicture |-> FALSE]

NoNote == BuildNote(<<>>, <<>>, <<>>, <<>>, <<>>, <<>>, <<>>)

\* The file name and the tag of an image: anki_img_<time>_<idx><ext>.
ImgPrefix == <<"a", "n", "k", "i", "_", "i", "m", "g", "_", "t", "_">>
ImgName(idx, ext) == ImgPrefix \o <<Digits[idx + 1]>> \o ext
ImgTag(fname) ==
    <<"<", "i", "m", "g", " ", "s", "r", "c", "=", Quote>> \o fname \o <<Quote, ">">>

Jpg == <<".", "j", "p", "g">>
Png == <<".", "p", "n", "g">>

\* The extension of a downloaded image: from the Content-Type, else from the
\* URL's ending, else .jpg.  ct and suffix are "png" or "".
UrlExt(ct, suffix) ==
    IF ct = "png" THEN Png ELSE IF suffix = "png" THEN Png ELSE Jpg

\* os.path.splitext(path)[1] or ".jpg"; suffix is "png" or "".
PathExt(suffix) == IF suffix = "png" THEN Png ELSE Jpg

\* A list that would grow at its head.
TagsReversed(tags, tag) == <<tag>> \o tags

\* img_html_list after one more stored image.
TagsAfter(tags, tag) == Append(tags, tag)

\* note["fields"]["Picture"], set only when a tag was collected.
WithPicture(n, tags) ==
    IF tags # <<>>
    THEN [n EXCEPT !.Picture = Join(tags, <<" ">>), !.hasPicture = TRUE]
    ELSE n

----------------------------------------------------------------------------
(* The inputs of main in the model.                                        *)

\* What input() gives: a line, KeyboardInterrupt or EOFError.
Inputs(lines) ==
    {[kind |-> "line", text |-> t] : t \in lines}
        \cup {[kind |-> "interrupt", text |-> <<>>], [kind |-> "eof", text |-> <<>>]}

LangInputs == {<<>>, <<" ", "e", "n">>}
En == <<"e", "n">>
DeckChoices == {<<>>, <<" ", "1">>, <<"0">>, <<"3">>, <<"a">>}
SessionWords == {<<"a", " ", "b">>, <<"a", "_", "b">>}
WordInputs == {<<>>, <<"q">>, <<" ", "Q">>, <<" ">>} \cup SessionWords
DupAnswers == {<<>>, <<" ", "Y">>, <<"n">>}
AddAnswers == {<<>>, <<" ", "N">>, <<"n", "o">>}
EditInputs == {<<>>, <<"x">>}
KeepInput == {<<>>}
TextInput == {<<" ", "x">>}

\* A picture input is the sequence of its comma-separated sources: "blank"
\* (nothing between two commas), "url" (starts with http) or "path"; the empty
\* sequence is the empty line.
SourceKinds == {"blank", "url", "path"}
PicInputs == SeqsUpTo(SourceKinds, MaxPics)

\* The service's responses in the session: a result, an error, no connection.
OkResponse(val) == DictResponse([result |-> val, error |-> PyNone])
ErrorResponse == DictResponse([result |-> PyNone, error |-> PyStr(<<"e">>)])
DeckA == <<"A">>
DeckB == <<"B">>
DeckNamesResponses ==
    {OkResponse(PyList(<<PyStr(DeckA), PyStr(DeckB)>>)),
     OkResponse(PyList(<<PyStr(DeckB), PyStr(DeckA)>>)),
     OkResponse(PyList(<<>>)), ErrorResponse, RaiseResponse}
StoreResponses == {OkResponse(PyStr(<<"f">>)), ErrorResponse, RaiseResponse}
AddNoteResponses == {OkResponse(Num5), ErrorResponse, RaiseResponse}

\* The tool's outputs in the session: no array, and [["a",["a","a"]]].
SessionOutputs ==
    {<<"x">>, <<"[", "[", "s", ",", "[", "s", ",", "s", "]", "]", "]">>}

AudioNames == {AudioFileName(w) : w \in SessionWords}

----------------------------------------------------------------------------
(* main                                                                    *)

\* The locals of one loop iteration, none of which is read before the
\* iteration assigns it.
FreshIteration ==
    /\ card_data = DefaultResult(<<>>)
    /\ audio = <<>>
    /\ translation = <<>>
    /\ ipa = <<>>
    /\ pos_in = <<>>
    /\ ex_str = <<>>
    /\ notes = <<>>
    /\ pic_input = <<>>
    /\ note = NoNote
    /\ img_idx = 0
    /\ img_html_list = <<>>
    /\ imgLog = <<>>
    /\ dupAnswer = <<"-">>
    /\ addAnswer = <<"-">>
    /\ addNotes = 0
    /\ added = FALSE

StartIteration ==
    /\ card_data' = DefaultResult(<<>>)
    /\ audio' = <<>>
    /\ translation' = <<>>
    /\ ipa' = <<>>
    /\ pos_in' = <<>>
    /\ ex_str' = <<>>
    /\ notes' = <<>>
    /\ pic_input' = <<>>
    /\ note' = NoNote
    /\ img_idx' = 0
    /\ img_html_list' = <<>>
    /\ imgLog' = <<>>
    /\ dupAnswer' = <<"-">>
    /\ addAnswer' = <<"-">>
    /\ addNotes' = 0
    /\ added' = FALSE

IdleMain ==
    /\ pc = "idle"
    /\ exitStatus = -1
    /\ errOut = "none"
    /\ interrupted = FALSE
    /\ conn = "refused"
    /\ prompted = FALSE
    /\ sent = {}
    /\ lang_code = <<>>
    /\ decks = <<>>
    /\ deck_name = <<>>
    /\ word = <<>>
    /\ files = [f \in AudioNames |-> "absent"]
    /\ FreshIteration

InitMain ==
    /\ pc = "start"
    /\ exitStatus = -1
    /\ errOut = "none"
    /\ interrupted = FALSE
    /\ conn = "refused"
    /\ prompted = FALSE
    /\ sent = {}
    /\ lang_code = <<>>
    /\ decks = <<>>
    /\ deck_name = <<>>
    /\ word = <<>>
    /\ files = [f \in AudioNames |-> "absent"]
    /\ FreshIteration

\* The process ends: sys.exit, the end of main, or an uncaught exception
\* (status 1 with a traceback; an uncaught KeyboardInterrupt gives 130).
\* ki tells whether a KeyboardInterrupt ended it.
Exit(status, err, ki) ==
    /\ pc' = "exited"
    /\ exitStatus' = status
    /\ errOut' = err
    /\ interrupted' = ki

UncaughtStatus(kind) == IF kind = "interrupt" THEN 130 ELSE 1

\* main, lines 135-138: the liveness check; dunstify may not be installed, and
\* subprocess.run then raises FileNotFoundError before the message is printed.
\* A KeyboardInterrupt inside requests.get (line 32, not an Exception) or
\* inside subprocess.run (line 136) is caught by nothing.
Startup ==
    /\ pc = "start"
    /\ \/ \E c \in {"refused", "200", "500"},
             dunstify \in {"ok", "missing", "interrupted"} :
             /\ conn' = c
             /\ IF check_anki_connection(c)
                THEN pc' = "lang" /\ UNCHANGED <<exitStatus, errOut, interrupted>>
                ELSE IF dunstify = "missing" THEN Exit(1, "traceback", FALSE)
                ELSE IF dunstify = "interrupted"
                THEN Exit(UncaughtStatus("interrupt"), "traceback", TRUE)
                ELSE Exit(1, "message", FALSE)
       \/ /\ conn' = "interrupted"
          /\ Exit(UncaughtStatus("interrupt"), "traceback", TRUE)
    /\ UNCHANGED <<prompted, sent, lang_code, decks, deck_name, word, files, iterVars>>

\* main, line 140: the language prompt, outside any try.
LangPrompt ==
    /\ pc = "lang"
    /\ prompted' = TRUE
    /\ \E in \in Inputs(LangInputs) :
          IF in.kind = "line"
          THEN /\ lang_code' = OrDefault(Lower(Strip(in.text)), En)
               /\ pc' = "deck_names"
               /\ UNCHANGED <<exitStatus, errOut, interrupted>>
          ELSE /\ Exit(UncaughtStatus(in.kind), "traceback", in.kind = "interrupt")
               /\ UNCHANGED lang_code
    /\ UNCHANGED <<conn, sent, decks, deck_name, word, files, iterVars>>

\* select_deck, lines 44-48: the deck listing.  A KeyboardInterrupt inside the
\* request passes invoke's except clause and, outside the loop, ends the
\* process.
GetDeckNames ==
    /\ pc = "deck_names"
    /\ sent' = sent \cup {"deckNames"}
    /\ \/ /\ \E r \in DeckNamesResponses :
                LET d == invoke(r).ret
                IN  IF ~Truthy(d)
                    THEN /\ deck_name' = DefaultDeck
                         /\ pc' = "word"
                         /\ UNCHANGED decks
                    ELSE /\ decks' = SortReverse([i \in 1..Len(d.v) |-> d.v[i].s])
                         /\ pc' = "deck"
                         /\ UNCHANGED deck_name
          /\ UNCHANGED <<exitStatus, errOut, interrupted>>
       \/ /\ Exit(UncaughtStatus("interrupt"), "traceback", TRUE)
          /\ UNCHANGED <<decks, deck_name>>
    /\ UNCHANGED <<conn, prompted, lang_code, word, files, iterVars>>

\* select_deck, lines 49-53: the selection prompt, repeated until valid.
DeckPrompt ==
    /\ pc = "deck"
    /\ \E in \in Inputs(DeckChoices) :
          IF in.kind = "line"
          THEN LET choice == Strip(in.text)
               IN  /\ UNCHANGED <<exitStatus, errOut, interrupted>>
                   /\ IF choice = <<>>
                      THEN deck_name' = DefaultDeck /\ decks' = <<>> /\ pc' = "word"
                      ELSE IF IsDigitStr(choice) /\ 0 < ToInt(choice)
                              /\ ToInt(choice) <= Len(decks)
                      THEN /\ deck_name' = decks[ToInt(choice)]
                           /\ decks' = <<>>
                           /\ pc' = "word"
                      ELSE UNCHANGED <<deck_name, decks, pc>>
          ELSE /\ Exit(UncaughtStatus(in.kind), "traceback", in.kind = "interrupt")
               /\ UNCHANGED <<deck_name, decks>>
    /\ prompted' = TRUE
    /\ UNCHANGED <<conn, sent, lang_code, word, files, iterVars>>

\* main, lines 148-149: the word prompt.  A blank line, q and an interrupt end
\* the loop and main returns; EOFError is caught by the loop's except clause.
WordPrompt ==
    /\ pc = "word"
    /\ \E in \in Inputs(WordInputs) :
          IF in.kind = "line" /\ ~QuitsLoop(Strip(in.text))
          THEN /\ word' = Strip(in.text)
               /\ pc' = "dup"
               /\ StartIteration
               /\ UNCHANGED <<exitStatus, errOut, interrupted>>
          ELSE IF in.kind = "eof"
          THEN /\ StartIteration
               /\ UNCHANGED <<pc, word, exitStatus, errOut, interrupted>>
          ELSE /\ Exit(0, "none", in.kind = "interrupt")
               /\ UNCHANGED <<word, iterVars>>
    /\ prompted' = TRUE
    /\ UNCHANGED <<conn, sent, lang_code, decks, deck_name, files>>

\* A prompt or a blocking call inside the loop that is interrupted (break: main
\* returns), or a prompt that hits the end of input (caught: back to the word
\* prompt).
LoopSignal(kind) ==
    IF kind = "interrupt" THEN Exit(0, "none", TRUE)
    ELSE pc' = "word" /\ UNCHANGED <<exitStatus, errOut, interrupted>>

\* main, line 151: the duplicate check; a KeyboardInterrupt inside the request
\* reaches the loop's handler (line 268).
CheckDuplicate ==
    /\ pc = "dup"
    /\ sent' = sent \cup {"findNotes"}
    /\ \/ /\ \E r \in FindNotesResponses :
                pc' = IF card_exists(r) THEN "dup_prompt" ELSE "fetch"
          /\ UNCHANGED <<exitStatus, errOut, interrupted>>
       \/ LoopSignal("interrupt")
    /\ UNCHANGED <<conn, prompted, lang_code, decks, deck_name, word, files, iterVars>>

\* main, lines 152-154: "Add anyway?".
DupPrompt ==
    /\ pc = "dup_prompt"
    /\ \E in \in Inputs(DupAnswers) :
          IF in.kind = "line"
          THEN /\ dupAnswer' = in.text
               /\ pc' = IF AddAnyway(in.text) THEN "fetch" ELSE "word"
               /\ UNCHANGED <<exitStatus, errOut, interrupted>>
          ELSE LoopSignal(in.kind) /\ UNCHANGED dupAnswer
    /\ prompted' = TRUE
    /\ UNCHANGED <<conn, sent, lang_code, decks, deck_name, word, files,
                   card_data, audio, translation, ipa, pos_in, ex_str, notes,
                   pic_input, note, img_idx, img_html_list, imgLog, addAnswer,
                   addNotes, added>>

\* main, lines 156-169: the lookup, the audio download and the browser.  When
\* trans cannot be started run_trans_dump returns None and download_audio
\* raises; when firefox cannot be started Popen raises; both are caught by the
\* loop's except clause.  A KeyboardInterrupt while the lookup runs (line 60)
\* or while the download runs (line 71, the file written or not, audio_path
\* not yet assigned) reaches the loop's handler (line 268).
Fetch ==
    /\ pc = "fetch"
    /\ \/ /\ \E how \in {"ok", "missing"}, out \in SessionOutputs,
                wrote \in {"full", "empty", "nothing"}, firefox \in {"ok", "missing"} :
                LET d == run_trans_dump(how, out)
                    fname == AudioFileName(word)
                    after == FileAfterTrans(files[fname], wrote)
                IN  /\ \E ord \in Orderings(IF Truthy(d) THEN Traverse(d).all_pos
                                             ELSE {}) :
                           card_data' = parse_trans_data(d, word, ord).res
                    /\ IF how = "missing"
                       THEN pc' = "word" /\ UNCHANGED <<files, audio>>
                       ELSE /\ files' = [files EXCEPT ![fname] = after]
                            /\ audio' = download_audio(after, word)
                            /\ pc' = IF firefox = "missing" THEN "word" ELSE "edit_def"
          /\ UNCHANGED <<exitStatus, errOut, interrupted>>
       \/ /\ LoopSignal("interrupt")
          /\ UNCHANGED <<card_data, files, audio>>
       \/ /\ \E out \in SessionOutputs, wrote \in {"full", "empty", "nothing"} :
                LET d == run_trans_dump("ok", out)
                    fname == AudioFileName(word)
                IN  /\ \E ord \in Orderings(IF Truthy(d) THEN Traverse(d).all_pos
                                             ELSE {}) :
                           card_data' = parse_trans_data(d, word, ord).res
                    /\ files' = [files EXCEPT
                                   ![fname] = FileAfterTrans(files[fname], wrote)]
          /\ LoopSignal("interrupt")
          /\ UNCHANGED audio
    /\ UNCHANGED <<conn, prompted, sent, lang_code, decks,
                   deck_name, word, translation, ipa, pos_in, ex_str, notes,
                   pic_input, note, img_idx, img_html_list, imgLog, dupAnswer,
                   addAnswer, addNotes, added>>


\* What the edit prompts leave alone.
sessionConst == <<conn, sent, lang_code, decks, deck_name, word, files>>

\* main, line 176: "Edit Definition".
EditDefinition ==
    /\ pc = "edit_def"
    /\ prompted' = TRUE
    /\ \E in \in Inputs(EditInputs) :
          IF in.kind = "line"
          THEN /\ translation' = OrDefault(in.text, card_data.translation)
               /\ pc' = "edit_ipa"
               /\ UNCHANGED <<exitStatus, errOut, interrupted>>
          ELSE LoopSignal(in.kind) /\ UNCHANGED translation
    /\ UNCHANGED <<sessionConst, card_data, audio, ipa, pos_in, ex_str, notes,
                   pic_input, note, img_idx, img_html_list, imgLog, dupAnswer,
                   addAnswer, addNotes, added>>

\* main, line 177: "Edit IPA".
EditIpa ==
    /\ pc = "edit_ipa"
    /\ prompted' = TRUE
    /\ \E in \in Inputs(KeepInput) :
          IF in.kind = "line"
          THEN /\ ipa' = OrDefault(in.text, card_data.ipa)
               /\ pc' = "edit_pos"
               /\ UNCHANGED <<exitStatus, errOut, interrupted>>
          ELSE LoopSignal(in.kind) /\ UNCHANGED ipa
    /\ UNCHANGED <<sessionConst, card_data, audio, translation, pos_in, ex_str,
                   notes, pic_input, note, img_idx, img_html_list, imgLog,
                   dupAnswer, addAnswer, addNotes, added>>

\* main, line 178: "Edit PoS".
EditPos ==
    /\ pc = "edit_pos"
    /\ prompted' = TRUE
    /\ \E in \in Inputs(TextInput) :
          IF in.kind = "line"
          THEN /\ pos_in' = OrDefault(in.text, card_data.pos)
               /\ pc' = "edit_ex"
               /\ UNCHANGED <<exitStatus, errOut, interrupted>>
          ELSE LoopSignal(in.kind) /\ UNCHANGED pos_in
    /\ UNCHANGED <<sessionConst, card_data, audio, translation, ipa, ex_str, notes,
                   pic_input, note, img_idx, img_html_list, imgLog, dupAnswer,
                   addAnswer, addNotes, added>>

\* main, lines 180-183: "Edit Examples".
EditExamples ==
    /\ pc = "edit_ex"
    /\ prompted' = TRUE
    /\ \E in \in Inputs(KeepInput) :
          IF in.kind = "line"
          THEN /\ ex_str' = OrDefault(in.text, ExamplesString(card_data.examples))
               /\ pc' = "notes"
               /\ UNCHANGED <<exitStatus, errOut, interrupted>>
          ELSE LoopSignal(in.kind) /\ UNCHANGED ex_str
    /\ UNCHANGED <<sessionConst, card_data, audio, translation, ipa, pos_in, notes,
                   pic_input, note, img_idx, img_html_list, imgLog, dupAnswer,
                   addAnswer, addNotes, added>>

\* main, line 185: "Notes".
NotesPrompt ==
    /\ pc = "notes"
    /\ prompted' = TRUE
    /\ \E in \in Inputs(TextInput) :
          IF in.kind = "line"
          THEN /\ notes' = Strip(in.text)
               /\ pc' = "picture"
               /\ UNCHANGED <<exitStatus, errOut, interrupted>>
          ELSE LoopSignal(in.kind) /\ UNCHANGED notes
    /\ UNCHANGED <<sessionConst, card_data, audio, translation, ipa, pos_in, ex_str,
                   pic_input, note, img_idx, img_html_list, imgLog, dupAnswer,
                   addAnswer, addNotes, added>>

\* main, line 186: "Picture (URL or Path)".
PicturePrompt ==
    /\ pc = "picture"
    /\ prompted' = TRUE
    /\ \E in \in Inputs({<<>>}), pics \in PicInputs :
          IF in.kind = "line"
          THEN /\ pic_input' = pics
               /\ pc' = "confirm"
               /\ UNCHANGED <<exitStatus, errOut, interrupted>>
          ELSE LoopSignal(in.kind) /\ UNCHANGED pic_input
    /\ UNCHANGED <<sessionConst, card_data, audio, translation, ipa, pos_in, ex_str,
                   notes, note, img_idx, img_html_list, imgLog, dupAnswer,
                   addAnswer, addNotes, added>>

\* main, lines 188-206: "Add card?", then the note is built and the audio file
\* stored (the result of storeMediaFile is not looked at).  A KeyboardInterrupt
\* inside that request (line 205) comes before the sound field is set and
\* reaches the loop's handler (line 268).
ConfirmPrompt ==
    /\ pc = "confirm"
    /\ prompted' = TRUE
    /\ \E in \in Inputs(AddAnswers), store \in {"returned", "interrupted"} :
          IF in.kind = "line"
          THEN /\ addAnswer' = in.text
               /\ IF AddCard(in.text)
                  THEN LET n == BuildNote(deck_name, word, translation, ipa,
                                          pos_in, ex_str, notes)
                       IN  IF audio # <<>> /\ store = "interrupted"
                           THEN /\ note' = n
                                /\ sent' = sent \cup {"storeMediaFile"}
                                /\ LoopSignal("interrupt")
                           ELSE /\ note' = IF audio # <<>>
                                           THEN [n EXCEPT !.Sound = SoundField(audio),
                                                          !.hasSound = TRUE]
                                           ELSE n
                                /\ sent' = IF audio # <<>>
                                           THEN sent \cup {"storeMediaFile"} ELSE sent
                                /\ pc' = IF pic_input # <<>> THEN "images"
                                         ELSE "add_note"
                                /\ UNCHANGED <<exitStatus, errOut, interrupted>>
                  ELSE /\ pc' = "word"
                       /\ UNCHANGED <<note, sent, exitStatus, errOut, interrupted>>
          ELSE LoopSignal(in.kind) /\ UNCHANGED <<addAnswer, note, sent>>
    /\ UNCHANGED <<conn, lang_code, decks, deck_name, word, files, card_data, audio,
                   translation, ipa, pos_in, ex_str, notes, pic_input, img_idx,
                   img_html_list, imgLog, dupAnswer, addNotes, added>>

\* Whether an image source gave bytes: a download needs status 200 and a body,
\* a path an existing readable file that is not empty.
GotImage(kind, got) == kind # "blank" /\ got = "data"

\* The extensions a source can get, over its Content-Type and its ending.
ExtChoices(kind) ==
    IF kind = "url"
    THEN {UrlExt(ct, suffix) : ct \in {"png", ""}, suffix \in {"png", ""}}
    ELSE {PathExt(suffix) : suffix \in {"png", ""}}

\* Whether the image was stored: storeMediaFile is invoked for fetched bytes
\* only, and its result has to be truthy.
StoreOutcomes(fetched) ==
    IF fetched THEN {Truthy(invoke(r).ret) : r \in StoreResponses} ELSE {FALSE}

\* main, lines 210-262: one image source.  got is "data", "empty" (no bytes),
\* "failed" (status other than 200, file not found) or "raised" (the download
\* or the read raised); the tag is kept when storeMediaFile returned a name.
\* After the last source the Picture field is set.  A KeyboardInterrupt inside
\* the download (line 223) or inside the storeMediaFile request (line 255)
\* passes the except clauses of lines 236 and 260 and reaches the loop's
\* handler (line 268).
ProcessImage ==
    /\ pc = "images"
    /\ img_idx < Len(pic_input)
    /\ \/ /\ \E got \in {"data", "empty", "failed", "raised"} :
             \E ext \in ExtChoices(pic_input[img_idx + 1]) :
             \E stored \in StoreOutcomes(GotImage(pic_input[img_idx + 1], got)) :
                LET kind == pic_input[img_idx + 1]
                    fname == ImgName(img_idx, ext)
                    fetched == GotImage(kind, got)
                    tags == IF stored THEN TagsAfter(img_html_list, ImgTag(fname))
                            ELSE img_html_list
                IN  /\ img_html_list' = tags
                    /\ imgLog' = Append(imgLog,
                           [idx |-> img_idx, kind |-> kind, fetched |-> fetched,
                            stored |-> stored, ext |-> IF stored THEN ext ELSE <<>>])
                    /\ sent' = IF fetched THEN sent \cup {"storeMediaFile"} ELSE sent
                    /\ img_idx' = img_idx + 1
                    /\ IF img_idx + 1 = Len(pic_input)
                       THEN note' = WithPicture(note, tags) /\ pc' = "add_note"
                       ELSE UNCHANGED <<note, pc>>
          /\ UNCHANGED <<exitStatus, errOut, interrupted>>
       \/ /\ pic_input[img_idx + 1] = "url"
          /\ LoopSignal("interrupt")
          /\ UNCHANGED <<img_html_list, imgLog, sent, img_idx, note>>
       \/ /\ GotImage(pic_input[img_idx + 1], "data")
          /\ sent' = sent \cup {"storeMediaFile"}
          /\ LoopSignal("interrupt")
          /\ UNCHANGED <<img_html_list, imgLog, img_idx, note>>
    /\ UNCHANGED <<conn, prompted, lang_code, decks, deck_name,
                   word, files, card_data, audio, translation, ipa, pos_in, ex_str,
                   notes, pic_input, dupAnswer, addAnswer, addNotes, added>>

\* main, lines 264-266: the submission, then the audio file is removed.  A
\* KeyboardInterrupt inside the request reaches the loop's handler (line 268)
\* before line 266.
AddNote ==
    /\ pc = "add_note"
    /\ sent' = sent \cup {"addNote"}
    /\ addNotes' = addNotes + 1
    /\ \/ /\ \E r \in AddNoteResponses : added' = Truthy(invoke(r).ret)
          /\ files' = IF audio # <<>> /\ files[audio] # "absent"
                      THEN [files EXCEPT ![audio] = "absent"] ELSE files
          /\ pc' = "word"
          /\ UNCHANGED <<exitStatus, errOut, interrupted>>
       \/ /\ LoopSignal("interrupt")
          /\ UNCHANGED <<added, files>>
    /\ UNCHANGED <<conn, prompted, lang_code, decks, deck_name,
                   word, card_data, audio, translation, ipa, pos_in, ex_str, notes,
                   pic_input, note, img_idx, img_html_list, imgLog, dupAnswer,
                   addAnswer>>

----------------------------------------------------------------------------
(* The specifications.                                                     *)

vars == <<parseVars, invokeVars, queryVars, mainVars>>

Init == InitMain /\ IdleParse /\ IdleInvoke /\ IdleQuery

Next ==
    \/ Startup /\ UNCHANGED <<parseVars, invokeVars, queryVars>>
    \/ LangPrompt /\ UNCHANGED <<parseVars, invokeVars, queryVars>>
    \/ GetDeckNames /\ UNCHANGED <<parseVars, invokeVars, queryVars>>
    \/ DeckPrompt /\ UNCHANGED <<parseVars, invokeVars, queryVars>>
    \/ WordPrompt /\ UNCHANGED <<parseVars, invokeVars, queryVars>>
    \/ CheckDuplicate /\ UNCHANGED <<parseVars, invokeVars, queryVars>>
    \/ DupPrompt /\ UNCHANGED <<parseVars, invokeVars, queryVars>>
    \/ Fetch /\ UNCHANGED <<parseVars, invokeVars, queryVars>>
    \/ EditDefinition /\ UNCHANGED <<parseVars, invokeVars, queryVars>>
    \/ EditIpa /\ UNCHANGED <<parseVars, invokeVars, queryVars>>
    \/ EditPos /\ UNCHANGED <<parseVars, invokeVars, queryVars>>
    \/ EditExamples /\ UNCHANGED <<parseVars, invokeVars, queryVars>>
    \/ NotesPrompt /\ UNCHANGED <<parseVars, invokeVars, queryVars>>
    \/ PicturePrompt /\ UNCHANGED <<parseVars, invokeVars, queryVars>>
    \/ ConfirmPrompt /\ UNCHANGED <<parseVars, invokeVars, queryVars>>
    \/ ProcessImage /\ UNCHANGED <<parseVars, invokeVars, queryVars>>
    \/ AddNote /\ UNCHANGED <<parseVars, invokeVars, queryVars>>

Spec == Init /\ [][Next]_vars

NextParse ==
    \/ RunTransDump /\ UNCHANGED <<invokeVars, queryVars, mainVars>>
    \/ ParseTransData /\ UNCHANGED <<invokeVars, queryVars, mainVars>>

ParseInit == InitParse /\ IdleInvoke /\ IdleQuery /\ IdleMain

SpecParse == ParseInit /\ [][NextParse]_vars

NextInvoke == Invoke /\ UNCHANGED <<parseVars, queryVars, mainVars>>

InvokeInit == InitInvoke /\ IdleParse /\ IdleQuery /\ IdleMain

SpecInvoke == InvokeInit /\ [][NextInvoke]_vars

NextQuery == CardExists /\ UNCHANGED <<parseVars, invokeVars, mainVars>>

QueryInit == InitQuery /\ IdleParse /\ IdleInvoke /\ IdleMain

SpecQuery == QueryInit /\ [][NextQuery]_vars


----------------------------------------------------------------------------
(* The claims.                                                             *)

\* C1: parse_trans_data never raises, whatever the payload; and when
\* run_trans_dump returned None the entry has the query word and every other
\* field empty.
C1_NeverRaisesDefaultsOnNone ==
    ppc = "done" =>
        /\ ~result.escaped
        /\ data = PyNone =>
              result.res = [word |-> qword, translation |-> <<>>, ipa |-> <<>>,
                            pos |-> <<>>, definitions |-> <<>>, examples |-> <<>>]

\* C1, witness: the tool printed text with no "[" in it, and the entry returned
\* for it is the default one.
C1_Witness ==
    /\ ppc = "done"
    /\ launch = "ok"
    /\ output # <<>>
    /\ Find(output, "[") = -1
    /\ data = PyNone
    /\ result.res.word = qword
    /\ result.res.definitions = <<>>

\* C2: when the liveness check fails (no connection, or a status other than
\* 200), main ends with status 1 after the error "Anki is not running" was
\* printed, no prompt is ever issued and no service action is ever sent.
C2_ServiceDownExits ==
    (pc \notin {"idle", "start"} /\ conn \in {"refused", "500"}) =>
        /\ pc = "exited"
        /\ exitStatus = 1
        /\ errOut = "message"
        /\ ~prompted
        /\ sent = {}

\* The user accepted this iteration's word: "Add anyway?" was not asked or was
\* answered y, and "Add card?" was asked and not answered n.
C3_Accepted ==
    /\ dupAnswer = <<"-">> \/ Lower(Strip(dupAnswer)) = <<"y">>
    /\ addAnswer # <<"-">>
    /\ Lower(Strip(addAnswer)) # <<"n">>

\* The user declined this iteration's word at one of the two prompts.
C3_Declined ==
    \/ dupAnswer # <<"-">> /\ Lower(Strip(dupAnswer)) # <<"y">>
    \/ addAnswer # <<"-">> /\ Lower(Strip(addAnswer)) = <<"n">>

\* C3, as stated: an iteration sends addNote at most once and only after the
\* user accepted the word, never for a word declined at either prompt, and
\* exactly once by the time the iteration of an accepted word has ended (the
\* next word prompt is shown or the loop has exited).
C3_AddNoteExactlyOnceWhenAccepted ==
    /\ addNotes <= 1
    /\ addNotes = 1 => C3_Accepted
    /\ C3_Declined => addNotes = 0
    /\ (pc \in {"word", "exited"} /\ C3_Accepted) => addNotes = 1

\* C3, amended: an iteration sends addNote at most once and only after the user
\* accepted the word, never for a word declined at either prompt, and exactly
\* once by the time the iteration of an accepted word has ended unless a
\* KeyboardInterrupt ended the loop on the way to the submission.
C3_AddNoteOncePerAcceptedWord ==
    /\ addNotes <= 1
    /\ addNotes = 1 => C3_Accepted
    /\ C3_Declined => addNotes = 0
    /\ (pc \in {"word", "exited"} /\ ~interrupted /\ C3_Accepted) => addNotes = 1

\* C3, witness: the duplicate check found the word, the user answered Y, did
\* not decline the card, and the iteration ended with one addNote sent.
C3_Witness ==
    /\ pc = "word"
    /\ dupAnswer = <<" ", "Y">>
    /\ addAnswer = <<"n", "o">>
    /\ ~interrupted
    /\ addNotes = 1
    /\ "addNote" \in sent

\* C4: at the end of every iteration in which download_audio produced a file
\* (the next word prompt is shown, or the loop has exited), the file is gone.
C4_AudioFileRemoved ==
    (pc \in {"word", "exited"} /\ audio # <<>>) => files[audio] = "absent"

\* The tags of the sources of this iteration that were fetched and stored, in
\* input order.
C5_ResolvedTags ==
    LET resolved == SelectSeq(imgLog, LAMBDA e : e.stored)
    IN  [i \in 1..Len(resolved) |-> ImgTag(ImgName(resolved[i].idx, resolved[i].ext))]

\* Once the image sources are processed, the Picture field holds exactly the
\* tags of the resolved sources in input order, is absent when none was
\* resolved, and every source was handled.
C5_PictureHoldsResolvedTags ==
    (pc = "add_note" \/ (pc \in {"word", "exited"} /\ addNotes = 1)) =>
        /\ Len(imgLog) = Len(pic_input)
        /\ \A i \in 1..Len(imgLog) :
              imgLog[i].idx = i - 1 /\ imgLog[i].kind = pic_input[i]
        /\ note.hasPicture <=> C5_ResolvedTags # <<>>
        /\ note.Picture = Join(C5_ResolvedTags, <<" ">>)

\* The user accepted the word and the note was built, with its sound field when
\* there is an audio file (line 206): the image sources are handled next.
C5_NoteBuilt == C3_Accepted /\ (audio # <<>> => note.hasSound)

\* C5, as stated: the Picture field holds one tag per resolved source in input
\* order and is absent when none was resolved, and in every case addNote is
\* sent with the text fields for the accepted word by the time its iteration
\* has ended.
C5_AddNoteInEveryCase ==
    /\ C5_PictureHoldsResolvedTags
    /\ (pc \in {"word", "exited"} /\ C5_NoteBuilt) =>
          /\ addNotes = 1
          /\ "addNote" \in sent
          /\ note.Word = word

\* C5, amended: the Picture field holds one tag per resolved source in input
\* order and is absent when none was resolved, and addNote is sent with the
\* text fields for the accepted word whatever became of its sources, unless a
\* KeyboardInterrupt inside a download or a storeMediaFile request ended the
\* loop before the submission.
C5_PicturePerResolvedSource ==
    /\ C5_PictureHoldsResolvedTags
    /\ (pc \in {"word", "exited"} /\ ~interrupted /\ C5_NoteBuilt) =>
          /\ addNotes = 1
          /\ "addNote" \in sent
          /\ note.Word = word

\* C5, witness: of two sources the first could not be resolved and the second
\* was stored; the note carries one tag and was submitted.
C5_Witness ==
    /\ pc = "word"
    /\ ~interrupted
    /\ addNotes = 1
    /\ Len(imgLog) = 2
    /\ imgLog[1].kind = "url" /\ ~imgLog[1].stored
    /\ imgLog[2].kind = "path" /\ imgLog[2].stored
    /\ note.hasPicture
    /\ note.Picture = ImgTag(ImgName(1, Jpg))

\* The position of the quote that ends a quoted search term: the first quote
\* from position i on that no backslash escapes; 0 when the term never ends.
RECURSIVE C6_ClosingQuote(_, _)
C6_ClosingQuote(q, i) ==
    IF i > Len(q) THEN 0
    ELSE IF q[i] = Backslash THEN C6_ClosingQuote(q, i + 2)
    ELSE IF q[i] = Quote THEN i
    ELSE C6_ClosingQuote(q, i + 1)

\* C6: the quoted term "Word:<word>" of the query is ended by the quote that
\* card_exists appends, the last character of the query, whatever the word.
C6_WordTermClosedByOwnQuote ==
    cpc = "done" =>
        C6_ClosingQuote(query, Len(DeckPrefix) + Len(cdeck) + Len(WordPrefix) + 1)
            = Len(query)

\* The explanation-style definitions of a payload, and the synonym-style
\* definition of one top-level entry.
C7_ExplanationDefinitions(d) == ExplanationPass(Elements(d), EmptyAcc).definitions
C7_SynonymDefinition(item) ==
    <<"(">> \o item.v[1].s \o <<")", " ">>
        \o Join([i \in 1..(IF Len(item.v[2].v) < 5 THEN Len(item.v[2].v) ELSE 5) |->
                    item.v[2].v[i].s], CommaSp)

\* C7: the definitions returned are those of the explanation-style pass
\* whenever it produced any; otherwise each is "(<pos>) <s1>, <s2>, ..." of
\* the first five synonyms at most of one top-level entry; and the payload
\* [["noun", [a, b, c, d, e, f]]] gives the one definition "(noun) a, b, c, d, e".
C7_FallbackOnlyOnZeroDefinitions ==
    (ppc = "done" /\ Truthy(data) /\ HasLen(data)) =>
        LET first == C7_ExplanationDefinitions(data)
            defs == result.res.definitions
            items == Elements(data)
        IN  /\ first # <<>> => defs = first
            /\ first = <<>> =>
                  /\ Len(defs) <= Len(items)
                  /\ \A k \in 1..Len(defs) : \E i \in 1..Len(items) :
                        /\ IsList(items[i]) /\ Len(items[i].v) > 1
                        /\ IsStr(items[i].v[1]) /\ IsList(items[i].v[2])
                        /\ defs[k] = C7_SynonymDefinition(items[i])
            /\ data = PyList(<<PyList(<<PyStr(Noun), SynList(6)>>)>>) =>
                  defs = << <<"(", "n", "o", "u", "n", ")", " ", "a", ",", " ", "b",
                              ",", " ", "c", ",", " ", "d", ",", " ", "e">> >>

\* C7, witness: the synonym-only payload with six synonyms was parsed into one
\* definition.
C7_Witness ==
    /\ ppc = "done"
    /\ data = PyList(<<PyList(<<PyStr(Noun), SynList(6)>>)>>)
    /\ Len(result.res.definitions) = 1
    /\ result.res.pos = Noun

\* C8: a response with a non-null error makes invoke log it and return None,
\* whatever its result; so does a response without exactly two keys and a
\* failed connection (neither logged as a service error).
C8_ErrorMeansNoResult ==
    ipc = "done" =>
        /\ (HasKey(response, "error") /\ ResponseLen(response) = 2
              /\ response.d["error"] # PyNone) =>
              returned.ret = PyNone /\ returned.ankiError
        /\ (response.kind = "raise" \/ ResponseLen(response) # 2) =>
              returned.ret = PyNone

\* The part-of-speech label a definition starts with: the text between "(" and
\* the first ")".
C10_Label(def) ==
    SubSeq(def, 2, (CHOOSE i \in 1..Len(def) :
                        def[i] = ")" /\ \A j \in 1..(i - 1) : def[j] # ")") - 1)

\* C10: on every return the translation is the definitions joined with <br>,
\* and pos is the ", "-join, in some order, of exactly the labels that start a
\* collected definition.
C10_SummaryAgreesWithDefinitions ==
    ppc = "done" =>
        LET defs == result.res.definitions
            labels == {C10_Label(defs[k]) : k \in 1..Len(defs)}
        IN  /\ result.res.translation = Join(defs, Br)
            /\ \E ord \in Orderings(labels) : result.res.pos = Join(ord, CommaSp)

\* C9: once the liveness check has succeeded, the process ends with status 0
\* however it ends; status 1 is the failed liveness check alone.
C9_ExitZeroAfterLiveness ==
    pc = "exited" =>
        /\ conn = "200" => exitStatus = 0
        /\ exitStatus = 1 => conn # "200"

=============================================================================
